---- MODULE Spec2Model ----
(***************************************************************************)
(* Model of src/main.py: a FastAPI application that relays Telegram        *)
(* messages to Brave Search, summarises the digest with OpenAI and replies *)
(* to the chat.                                                            *)
(*                                                                         *)
(* A Python str is modelled as the sequence of its characters, so that     *)
(* strip(), lower(), join() and the substring test are computed.  A JSON   *)
(* value is a record tagged with its Python type:                          *)
(*   [t |-> "null"], [t |-> "str", v |-> chars], [t |-> "num", v |-> n],   *)
(*   [t |-> "list", v |-> sequence], [t |-> "dict", v |-> function].       *)
(***************************************************************************)
EXTENDS Integers, Sequences, FiniteSets, TLC

\* ------------------------------------------------------------------------
\* Bounds of the model
\* ------------------------------------------------------------------------

\* number of webhook requests the environment sends
NReq == 2

\* ------------------------------------------------------------------------
\* Python str operations
\* ------------------------------------------------------------------------

\* UpperCase is "ABCDEFGHIJKLMNOPQRSTUVWXYZ"
UpperCase == <<"A", "B", "C", "D", "E", "F", "G", "H", "I", "J", "K", "L", "M", "N", "O", "P", "Q", "R", "S", "T", "U", "V", "W", "X", "Y", "Z">>
\* LowerCase is "abcdefghijklmnopqrstuvwxyz"
LowerCase == <<"a", "b", "c", "d", "e", "f", "g", "h", "i", "j", "k", "l", "m", "n", "o", "p", "q", "r", "s", "t", "u", "v", "w", "x", "y", "z">>

Whitespace == {" ", "\t", "\n"}

LowerChar(c) ==
    IF \E i \in 1..Len(UpperCase) : UpperCase[i] = c
    THEN LowerCase[CHOOSE i \in 1..Len(UpperCase) : UpperCase[i] = c]
    ELSE c

\* str.lower()
lower(s) == [i \in 1..Len(s) |-> LowerChar(s[i])]

\* needle in s
contains(needle, s) ==
    \E i \in 0..(Len(s) - Len(needle)) : SubSeq(s, i + 1, i + Len(needle)) = needle

\* str.strip()
strip(s) ==
    LET keep == {i \in 1..Len(s) : s[i] \notin Whitespace}
    IN  IF keep = {} THEN <<>>
        ELSE SubSeq(s, CHOOSE i \in keep : \A j \in keep : i <= j,
                       CHOOSE i \in keep : \A j \in keep : i >= j)

RECURSIVE join(_, _)
\* sep.join(parts)
join(sep, parts) ==
    IF parts = <<>> THEN <<>>
    ELSE IF Len(parts) = 1 THEN parts[1]
    ELSE parts[1] \o sep \o join(sep, Tail(parts))

\* ------------------------------------------------------------------------
\* String literals of src/main.py
\* ------------------------------------------------------------------------

\* NO_TITLE is "No title"
NO_TITLE == <<"N", "o", " ", "t", "i", "t", "l", "e">>
\* NO_URL is "No URL"
NO_URL == <<"N", "o", " ", "U", "R", "L">>
\* TITLE_URL_SEP is " - "
TITLE_URL_SEP == <<" ", "-", " ">>
\* NEWLINE is "\n"
NEWLINE == <<"\n">>
\* NO_RESULTS is "No search results found."
NO_RESULTS == <<"N", "o", " ", "s", "e", "a", "r", "c", "h", " ", "r", "e", "s", "u", "l", "t", "s", " ", "f", "o", "u", "n", "d", ".">>
\* SEARCH_UNAVAILABLE is "Search service temporarily unavailable."
SEARCH_UNAVAILABLE == <<"S", "e", "a", "r", "c", "h", " ", "s", "e", "r", "v", "i", "c", "e", " ", "t", "e", "m", "p", "o", "r", "a", "r", "i", "l", "y", " ", "u", "n", "a", "v", "a", "i", "l", "a", "b", "l", "e", ".">>
\* SEARCH_ERROR is "An error occurred during search."
SEARCH_ERROR == <<"A", "n", " ", "e", "r", "r", "o", "r", " ", "o", "c", "c", "u", "r", "r", "e", "d", " ", "d", "u", "r", "i", "n", "g", " ", "s", "e", "a", "r", "c", "h", ".">>
\* SUMMARY_PROMPT is "Summarize and explain these search results:\n"
SUMMARY_PROMPT == <<"S", "u", "m", "m", "a", "r", "i", "z", "e", " ", "a", "n", "d", " ", "e", "x", "p", "l", "a", "i", "n", " ", "t", "h", "e", "s", "e", " ", "s", "e", "a", "r", "c", "h", " ", "r", "e", "s", "u", "l", "t", "s", ":", "\n">>
\* NO_SUMMARY is "Unable to generate summary."
NO_SUMMARY == <<"U", "n", "a", "b", "l", "e", " ", "t", "o", " ", "g", "e", "n", "e", "r", "a", "t", "e", " ", "s", "u", "m", "m", "a", "r", "y", ".">>
\* SUMMARY_UNAVAILABLE is "Summary service temporarily unavailable."
SUMMARY_UNAVAILABLE == <<"S", "u", "m", "m", "a", "r", "y", " ", "s", "e", "r", "v", "i", "c", "e", " ", "t", "e", "m", "p", "o", "r", "a", "r", "i", "l", "y", " ", "u", "n", "a", "v", "a", "i", "l", "a", "b", "l", "e", ".">>
\* SUMMARY_ERROR is "An error occurred while generating summary."
SUMMARY_ERROR == <<"A", "n", " ", "e", "r", "r", "o", "r", " ", "o", "c", "c", "u", "r", "r", "e", "d", " ", "w", "h", "i", "l", "e", " ", "g", "e", "n", "e", "r", "a", "t", "i", "n", "g", " ", "s", "u", "m", "m", "a", "r", "y", ".">>
\* PROMPT_FOR_QUERY is "Please send a search query."
PROMPT_FOR_QUERY == <<"P", "l", "e", "a", "s", "e", " ", "s", "e", "n", "d", " ", "a", " ", "s", "e", "a", "r", "c", "h", " ", "q", "u", "e", "r", "y", ".">>
\* ACK_SEARCH is "U+1F50E Searching..."
ACK_SEARCH == <<"U+1F50E", " ", "S", "e", "a", "r", "c", "h", "i", "n", "g", ".", ".", ".">>
\* ACK_SUMMARY is "U+1F4A1 Generating summary..."
ACK_SUMMARY == <<"U+1F4A1", " ", "G", "e", "n", "e", "r", "a", "t", "i", "n", "g", " ", "s", "u", "m", "m", "a", "r", "y", ".", ".", ".">>
\* APOLOGY is "Sorry, an error occurred. Please try again."
APOLOGY == <<"S", "o", "r", "r", "y", ",", " ", "a", "n", " ", "e", "r", "r", "o", "r", " ", "o", "c", "c", "u", "r", "r", "e", "d", ".", " ", "P", "l", "e", "a", "s", "e", " ", "t", "r", "y", " ", "a", "g", "a", "i", "n", ".">>
\* MARK_ERROR is "error"
MARK_ERROR == <<"e", "r", "r", "o", "r">>
\* MARK_UNAVAILABLE is "unavailable"
MARK_UNAVAILABLE == <<"u", "n", "a", "v", "a", "i", "l", "a", "b", "l", "e">>
\* PY_NONE is "None"
PY_NONE == <<"N", "o", "n", "e">>
\* LOG_BRAVE is "Brave search error"
LOG_BRAVE == <<"B", "r", "a", "v", "e", " ", "s", "e", "a", "r", "c", "h", " ", "e", "r", "r", "o", "r">>
\* LOG_BRAVE_UNEXPECTED is "Unexpected error in brave_search"
LOG_BRAVE_UNEXPECTED == <<"U", "n", "e", "x", "p", "e", "c", "t", "e", "d", " ", "e", "r", "r", "o", "r", " ", "i", "n", " ", "b", "r", "a", "v", "e", "_", "s", "e", "a", "r", "c", "h">>
\* LOG_OPENAI is "OpenAI API error"
LOG_OPENAI == <<"O", "p", "e", "n", "A", "I", " ", "A", "P", "I", " ", "e", "r", "r", "o", "r">>
\* LOG_OPENAI_UNEXPECTED is "Unexpected error in summarize_with_openai"
LOG_OPENAI_UNEXPECTED == <<"U", "n", "e", "x", "p", "e", "c", "t", "e", "d", " ", "e", "r", "r", "o", "r", " ", "i", "n", " ", "s", "u", "m", "m", "a", "r", "i", "z", "e", "_", "w", "i", "t", "h", "_", "o", "p", "e", "n", "a", "i">>
\* LOG_HANDLER is "Error in handle_message"
LOG_HANDLER == <<"E", "r", "r", "o", "r", " ", "i", "n", " ", "h", "a", "n", "d", "l", "e", "_", "m", "e", "s", "s", "a", "g", "e">>
\* LOG_WEBHOOK is "Webhook error"
LOG_WEBHOOK == <<"W", "e", "b", "h", "o", "o", "k", " ", "e", "r", "r", "o", "r">>

\* ------------------------------------------------------------------------
\* JSON values and the Python operations the stages apply to them
\* ------------------------------------------------------------------------

JNull == [t |-> "null"]
JStr(s) == [t |-> "str", v |-> s]
JNum(n) == [t |-> "num", v |-> n]
JList(l) == [t |-> "list", v |-> l]
JDict(d) == [t |-> "dict", v |-> d]
EmptyDict == JDict([k \in {} |-> JNull])

\* the characters of the keys the code looks up
KeyChars(key) ==
    CASE key = "web" -> <<"w", "e", "b">>
      [] key = "results" -> <<"r", "e", "s", "u", "l", "t", "s">>
      [] key = "choices" -> <<"c", "h", "o", "i", "c", "e", "s">>
      [] key = "title" -> <<"t", "i", "t", "l", "e">>
      [] key = "url" -> <<"u", "r", "l">>
      [] key = "message" -> <<"m", "e", "s", "s", "a", "g", "e">>
      [] key = "content" -> <<"c", "o", "n", "t", "e", "n", "t">>

\* `key in x` is defined for dict, list and str; anything else is a TypeError
SupportsIn(x) == x.t \in {"dict", "list", "str"}

\* key in x
PyIn(key, x) ==
    CASE x.t = "dict" -> key \in DOMAIN x.v
      [] x.t = "list" -> \E i \in 1..Len(x.v) : x.v[i].t = "str" /\ x.v[i].v = KeyChars(key)
      [] x.t = "str" -> contains(KeyChars(key), x.v)

\* bool(x)
Truthy(x) ==
    CASE x.t = "null" -> FALSE
      [] x.t = "num" -> x.v # 0
      [] x.t = "str" -> x.v # <<>>
      [] x.t = "list" -> x.v # <<>>
      [] x.t = "dict" -> DOMAIN x.v # {}

\* Digits is "0123456789"
Digits == <<"0", "1", "2", "3", "4", "5", "6", "7", "8", "9">>

\* f"{x}" for the values a title or url takes in this model
Format(x) ==
    CASE x.t = "str" -> x.v
      [] x.t = "null" -> PY_NONE
      [] x.t = "num" -> <<Digits[x.v + 1]>>

\* r.get(key, default) on a dict
DictGet(r, key, default) == IF key \in DOMAIN r.v THEN r.v[key] ELSE default

Min(a, b) == IF a < b THEN a ELSE b

\* ------------------------------------------------------------------------
\* Exceptions
\* ------------------------------------------------------------------------

\* subclasses of httpx.HTTPError
HTTPErrors == {"TimeoutException", "ConnectError", "HTTPStatusError"}
\* other subclasses of Exception raised in the stages
OtherExceptions == {"AttributeError", "RuntimeError", "JSONDecodeError", "TypeError",
                    "KeyError", "IndexError"}

Raise(e) == [exc |-> e, v |-> <<>>]
Return(v) == [exc |-> "none", v |-> v]

\* httpx: Response.is_success
IsSuccess(status) == status \in 200..299

\* http_client.get / http_client.post, then raise_for_status(), then json():
\* the exception raised before the body is inspected, or "none"
Fetch(client, resp) ==
    IF client = "None" THEN [exc |-> "AttributeError", sent |-> FALSE]
    ELSE IF client = "closed" THEN [exc |-> "RuntimeError", sent |-> FALSE]
    ELSE IF resp.transport # "ok" THEN [exc |-> resp.transport, sent |-> TRUE]
    ELSE IF ~IsSuccess(resp.status) THEN [exc |-> "HTTPStatusError", sent |-> TRUE]
    ELSE IF ~resp.json THEN [exc |-> "JSONDecodeError", sent |-> TRUE]
    ELSE [exc |-> "none", sent |-> TRUE]

\* x[key] for a str key: the value, a KeyError, or a TypeError on a non-dict
Subscript(x, key) ==
    IF x.t # "dict" THEN Raise("TypeError")
    ELSE IF key \notin DOMAIN x.v THEN Raise("KeyError")
    ELSE Return(x.v[key])

\* ------------------------------------------------------------------------
\* Search Stage: brave_search
\* ------------------------------------------------------------------------

\* results[:3]
DIGEST_MAX == 3

\* f"{r.get('title', 'No title')} - {r.get('url', 'No URL')}"
DigestLine(r) ==
    Format(DictGet(r, "title", JStr(NO_TITLE))) \o TITLE_URL_SEP
        \o Format(DictGet(r, "url", JStr(NO_URL)))

\* the body of the try block after resp.json(): the returned str or the
\* exception the navigation of `data` raises
SearchBody(data) ==
    IF ~SupportsIn(data) THEN Raise("TypeError")
    ELSE IF ~PyIn("web", data) THEN Return(NO_RESULTS)
    ELSE IF Subscript(data, "web").exc # "none" THEN Raise(Subscript(data, "web").exc)
    ELSE LET web == data.v["web"] IN
    IF ~SupportsIn(web) THEN Raise("TypeError")
    ELSE IF ~PyIn("results", web) THEN Return(NO_RESULTS)
    ELSE IF Subscript(web, "results").exc # "none" THEN Raise(Subscript(web, "results").exc)
    ELSE LET results == web.v["results"] IN
    IF ~Truthy(results) THEN Return(NO_RESULTS)
    ELSE IF results.t = "list" THEN
        LET top == SubSeq(results.v, 1, Min(DIGEST_MAX, Len(results.v))) IN
        IF \E i \in 1..Len(top) : top[i].t # "dict" THEN Raise("AttributeError")
        ELSE Return(join(NEWLINE, [i \in 1..Len(top) |-> DigestLine(top[i])]))
    ELSE IF results.t = "str" THEN Raise("AttributeError")
    ELSE Raise("TypeError")

\* brave_search without its `except Exception` clause
brave_search_http_only(query, client, resp) ==
    LET f == Fetch(client, resp)
        r == IF f.exc # "none" THEN Raise(f.exc) ELSE SearchBody(resp.data)
    IN  IF r.exc = "none"
        THEN [raised |-> FALSE, value |-> r.v, sent |-> f.sent, q |-> query,
              log |-> <<>>]
        ELSE IF r.exc \in HTTPErrors
        THEN [raised |-> FALSE, value |-> SEARCH_UNAVAILABLE, sent |-> f.sent,
              q |-> query, log |-> LOG_BRAVE]
        ELSE [raised |-> TRUE, value |-> <<>>, sent |-> f.sent, q |-> query,
              log |-> <<>>]

\* brave_search(query) with the state of the shared client and the provider's
\* response as explicit inputs.  value: the returned str; raised: an
\* exception left the function; sent: a GET went out; q: its query
\* parameter; log: the message given to logger.error, <<>> if none.
brave_search(query, client, resp) ==
    LET f == Fetch(client, resp)
        r == IF f.exc # "none" THEN Raise(f.exc) ELSE SearchBody(resp.data)
    IN  IF r.exc = "none"
        THEN [raised |-> FALSE, value |-> r.v, sent |-> f.sent, q |-> query,
              log |-> <<>>]
        ELSE IF r.exc \in HTTPErrors
        THEN [raised |-> FALSE, value |-> SEARCH_UNAVAILABLE, sent |-> f.sent,
              q |-> query, log |-> LOG_BRAVE]
        ELSE IF r.exc \in OtherExceptions
        THEN [raised |-> FALSE, value |-> SEARCH_ERROR, sent |-> f.sent,
              q |-> query, log |-> LOG_BRAVE_UNEXPECTED]
        ELSE [raised |-> TRUE, value |-> <<>>, sent |-> f.sent, q |-> query,
              log |-> <<>>]

\* ------------------------------------------------------------------------
\* Summarization Stage: summarize_with_openai
\* ------------------------------------------------------------------------

\* the body of the try block after response.json(): the returned value (the
\* content of the first choice, whatever its type) or the exception raised
SummaryBody(result) ==
    IF ~SupportsIn(result) THEN Raise("TypeError")
    ELSE IF ~PyIn("choices", result) THEN Return(JStr(NO_SUMMARY))
    ELSE IF Subscript(result, "choices").exc # "none"
    THEN Raise(Subscript(result, "choices").exc)
    ELSE LET choices == result.v["choices"] IN
    IF ~Truthy(choices) THEN Return(JStr(NO_SUMMARY))
    ELSE IF choices.t = "dict" THEN Raise("KeyError")
    ELSE IF choices.t = "num" THEN Raise("TypeError")
    ELSE LET first == IF choices.t = "list" THEN choices.v[1] ELSE JStr(<<choices.v[1]>>)
             message == Subscript(first, "message")
         IN  IF message.exc # "none" THEN Raise(message.exc)
             ELSE Subscript(message.v, "content")

\* summarize_with_openai without its `except Exception` clause
summarize_with_openai_http_only(text, client, resp) ==
    LET f == Fetch(client, resp)
        r == IF f.exc # "none" THEN Raise(f.exc) ELSE SummaryBody(resp.data)
    IN  IF r.exc = "none"
        THEN [raised |-> FALSE, value |-> r.v, sent |-> f.sent,
              prompt |-> SUMMARY_PROMPT \o text, log |-> <<>>]
        ELSE IF r.exc \in HTTPErrors
        THEN [raised |-> FALSE, value |-> JStr(SUMMARY_UNAVAILABLE), sent |-> f.sent,
              prompt |-> SUMMARY_PROMPT \o text, log |-> LOG_OPENAI]
        ELSE [raised |-> TRUE, value |-> JNull, sent |-> f.sent,
              prompt |-> SUMMARY_PROMPT \o text, log |-> <<>>]

\* summarize_with_openai(text) with the state of the shared client and the
\* provider's response as explicit inputs.  value: the returned JSON value
\* (a str on every path but a first choice whose content is not a str);
\* prompt: the user message of the POST.
summarize_with_openai(text, client, resp) ==
    LET f == Fetch(client, resp)
        r == IF f.exc # "none" THEN Raise(f.exc) ELSE SummaryBody(resp.data)
    IN  IF r.exc = "none"
        THEN [raised |-> FALSE, value |-> r.v, sent |-> f.sent,
              prompt |-> SUMMARY_PROMPT \o text, log |-> <<>>]
        ELSE IF r.exc \in HTTPErrors
        THEN [raised |-> FALSE, value |-> JStr(SUMMARY_UNAVAILABLE), sent |-> f.sent,
              prompt |-> SUMMARY_PROMPT \o text, log |-> LOG_OPENAI]
        ELSE IF r.exc \in OtherExceptions
        THEN [raised |-> FALSE, value |-> JStr(SUMMARY_ERROR), sent |-> f.sent,
              prompt |-> SUMMARY_PROMPT \o text, log |-> LOG_OPENAI_UNEXPECTED]
        ELSE [raised |-> TRUE, value |-> JNull, sent |-> f.sent,
              prompt |-> SUMMARY_PROMPT \o text, log |-> <<>>]

\* ------------------------------------------------------------------------
\* The environment's inputs
\* ------------------------------------------------------------------------

\* TITLE_CATS is "Cats"
TITLE_CATS == <<"C", "a", "t", "s">>
\* TITLE_OUTAGE is "Error 404"
TITLE_OUTAGE == <<"E", "r", "r", "o", "r", " ", "4", "0", "4">>
\* URL_CATS is "a.io"
URL_CATS == <<"a", ".", "i", "o">>
\* CONTENT_A is "Cats purr."
CONTENT_A == <<"C", "a", "t", "s", " ", "p", "u", "r", "r", ".">>
\* CONTENT_B is "Dogs bark."
CONTENT_B == <<"D", "o", "g", "s", " ", "b", "a", "r", "k", ".">>

EntryFull == JDict([title |-> JStr(TITLE_CATS), url |-> JStr(URL_CATS)])
EntryBare == JDict([url |-> JNull])
EntryOutage == JDict([title |-> JStr(TITLE_OUTAGE)])

WebResults(results) == JDict([web |-> JDict([results |-> results])])
Ok(data) == [transport |-> "ok", status |-> 200, json |-> TRUE, data |-> data]

\* what the search provider may answer to one GET
SearchResponses == <<
    Ok(WebResults(JList(<<EntryFull>>))),
    Ok(WebResults(JList(<<EntryBare, EntryFull, EntryFull, EntryOutage>>))),
    Ok(WebResults(JList(<<EntryFull, EntryOutage>>))),
    Ok(WebResults(JList(<<>>))),
    Ok(WebResults(JNull)),
    Ok(JDict([web |-> EmptyDict])),
    Ok(EmptyDict),
    Ok(JList(<<>>)),
    Ok(JNull),
    Ok(JDict([web |-> JStr(<<"n", "o", " ", "r", "e", "s", "u", "l", "t", "s">>)])),
    Ok(WebResults(JList(<<JStr(TITLE_CATS)>>))),
    Ok(WebResults(JStr(TITLE_CATS))),
    Ok(WebResults(JDict([total |-> JNum(1)]))),
    Ok(WebResults(JNum(1))),
    [transport |-> "ok", status |-> 200, json |-> FALSE, data |-> JNull],
    [transport |-> "ok", status |-> 500, json |-> TRUE, data |-> EmptyDict],
    [transport |-> "ok", status |-> 301, json |-> FALSE, data |-> JNull],
    [transport |-> "TimeoutException", status |-> 0, json |-> FALSE, data |-> JNull],
    [transport |-> "ConnectError", status |-> 0, json |-> FALSE, data |-> JNull]
>>

Choice(content) == JDict([message |-> JDict([content |-> content])])
Choices(choices) == JDict([choices |-> choices])

\* what the summarization provider may answer to one POST
SummaryResponses == <<
    Ok(Choices(JList(<<Choice(JStr(CONTENT_A))>>))),
    Ok(Choices(JList(<<Choice(JStr(CONTENT_A)), Choice(JStr(CONTENT_B))>>))),
    Ok(Choices(JList(<<Choice(JNull)>>))),
    Ok(Choices(JList(<<>>))),
    Ok(EmptyDict),
    Ok(JNull),
    Ok(Choices(JList(<<EmptyDict>>))),
    Ok(Choices(JList(<<JDict([message |-> JNull])>>))),
    Ok(Choices(JDict([first |-> Choice(JStr(CONTENT_A))]))),
    Ok(Choices(JStr(CONTENT_A))),
    [transport |-> "ok", status |-> 200, json |-> FALSE, data |-> JNull],
    [transport |-> "ok", status |-> 429, json |-> TRUE, data |-> EmptyDict],
    [transport |-> "TimeoutException", status |-> 0, json |-> FALSE, data |-> JNull],
    [transport |-> "ConnectError", status |-> 0, json |-> FALSE, data |-> JNull]
>>

\* TEXT_QUERY is " cats\n"
TEXT_QUERY == <<" ", "c", "a", "t", "s", "\n">>
\* TEXT_BLANK is " \t "
TEXT_BLANK == <<" ", "\t", " ">>
\* TEXT_COMMAND is "/start"
TEXT_COMMAND == <<"/", "s", "t", "a", "r", "t">>

NoMessage == [present |-> FALSE]
\* a telegram Message: text is a JSON str or null; command: the message
\* starts with a bot_command entity; chat: the chat it was sent in
Message(text, command, chat) ==
    [present |-> TRUE, text |-> text, command |-> command, chat |-> chat]
Update(message, edited_message) == [message |-> message, edited_message |-> edited_message]

\* the chats messages come from
Chats == <<"chat_a", "chat_b">>

\* the updates Update.de_json may build from a webhook body sent for a chat
Updates(chat) == <<
    Update(Message(JStr(TEXT_QUERY), FALSE, chat), NoMessage),
    Update(Message(JStr(TEXT_BLANK), FALSE, chat), NoMessage),
    Update(Message(JStr(<<>>), FALSE, chat), NoMessage),
    Update(Message(JNull, FALSE, chat), NoMessage),
    Update(Message(JStr(TEXT_COMMAND), TRUE, chat), NoMessage),
    Update(NoMessage, Message(JStr(TEXT_QUERY), FALSE, chat)),
    Update(NoMessage, NoMessage)
>>

NoUpdate == Update(NoMessage, NoMessage)

\* the bodies of POST /webhook: not JSON (request.json() raises), JSON that
\* Update.de_json turns into None, JSON on which Update.de_json raises, and
\* JSON of each update
Bodies(chat) ==
    <<[kind |-> "not_json", update |-> NoUpdate],
      [kind |-> "no_update", update |-> NoUpdate],
      [kind |-> "bad_fields", update |-> NoUpdate]>>
    \o [i \in 1..Len(Updates(chat)) |->
            [kind |-> "update", update |-> Updates(chat)[i]]]

\* the chat the webhook request r is sent for: concurrent requests come from
\* different chats
ChatOf(r) == Chats[((r - 1) % Len(Chats)) + 1]

Requests == 1..NReq

\* ------------------------------------------------------------------------
\* State
\* ------------------------------------------------------------------------

VARIABLES
    lifespan_pc,    \* the line of lifespan() that runs next, "exited" or "raised"
    http_client,    \* the global http_client: "None", "open" or "closed"
    running,        \* telegram_app.running
    body,           \* per request: the body received
    status,         \* per request: the HTTP status answered, 0 while pending
    hpc,            \* per request: where handle_message stands
    query,          \* per request: handle_message's local `query`
    results,        \* per request: handle_message's local `results`
    summary,        \* per request: handle_message's local `summary`
    trace,          \* per request: what the request did that is visible outside
    health          \* the last answer of GET /health, status_code 0 before the first

vars == <<lifespan_pc, http_client, running, body, status, hpc, query, results,
          summary, trace, health>>

lifespanVars == <<lifespan_pc, http_client, running>>
requestVars == <<body, status, hpc, query, results, summary, trace>>

\* events of a trace
Reply(text) == [e |-> "reply", text |-> text]
ReplyFailed(text) == [e |-> "reply_failed", text |-> text]
Get(q) == [e |-> "get", text |-> q]
Post(prompt) == [e |-> "post", text |-> prompt]
Log(text) == [e |-> "log", text |-> text]
\* a reply event with the chat the reply went to
To(chat, ev) == [e |-> ev.e, text |-> ev.text, chat |-> chat]

Init ==
    /\ lifespan_pc = "L35"
    /\ http_client = "None"
    /\ running = FALSE
    /\ body = [r \in Requests |-> [kind |-> "none", update |-> NoUpdate]]
    /\ status = [r \in Requests |-> 0]
    /\ hpc = [r \in Requests |-> "idle"]
    /\ query = [r \in Requests |-> <<>>]
    /\ results = [r \in Requests |-> <<>>]
    /\ summary = [r \in Requests |-> JNull]
    /\ trace = [r \in Requests |-> <<>>]
    /\ health = [status_code |-> 0, status |-> "", bot_running |-> FALSE]

\* ------------------------------------------------------------------------
\* Process lifecycle: lifespan
\* ------------------------------------------------------------------------

\* lines 35-37: the client is created, then telegram_app.initialize() is
\* awaited and returns or raises
lifespan_initialize ==
    /\ lifespan_pc = "L35"
    /\ http_client' = "open"
    /\ \/ lifespan_pc' = "L38"
       \/ lifespan_pc' = "raised_L37"
    /\ UNCHANGED <<running, requestVars, health>>

\* lines 38-41: telegram_app.start() is awaited; when it returns the engine
\* runs and the application serves requests
lifespan_start ==
    /\ lifespan_pc = "L38"
    /\ \/ running' = TRUE /\ lifespan_pc' = "L41"
       \/ running' = FALSE /\ lifespan_pc' = "raised_L38"
    /\ UNCHANGED <<http_client, requestVars, health>>

\* lifespan_stop closing the client while the engine still runs
lifespan_stop_closing_first ==
    /\ lifespan_pc = "L41"
    /\ http_client' = "closed"
    /\ lifespan_pc' = "L44"
    /\ UNCHANGED <<running, requestVars, health>>

\* line 43: the server shuts down and telegram_app.stop() is awaited; when
\* it raises, the exception leaves lifespan with the engine in either state
lifespan_stop ==
    /\ lifespan_pc = "L41"
    /\ \/ running' = FALSE /\ lifespan_pc' = "L44"
       \/ running' \in BOOLEAN /\ lifespan_pc' = "raised_L43"
    /\ UNCHANGED <<http_client, requestVars, health>>

\* lines 44-45: http_client.aclose() is awaited; when it raises, the
\* exception leaves lifespan with the client in either state
lifespan_aclose ==
    /\ lifespan_pc = "L44"
    /\ \/ http_client' = "closed" /\ lifespan_pc' = "exited"
       \/ http_client' \in {"open", "closed"} /\ lifespan_pc' = "raised_L44"
    /\ UNCHANGED <<running, requestVars, health>>

\* ------------------------------------------------------------------------
\* Dispatch Stage: telegram_webhook, the handler's filter, handle_message
\* ------------------------------------------------------------------------

\* Update.effective_message for the two kinds of update of this model
effective_message(u) == IF u.message.present THEN u.message ELSE u.edited_message

\* line 147: MessageHandler(filters.TEXT & ~filters.COMMAND, handle_message)
\* passes the update to handle_message
handler_matches(u) ==
    /\ effective_message(u).present
    /\ Truthy(effective_message(u).text)
    /\ ~effective_message(u).command

\* line 123: update.message.text.strip(), <<>> while there is no text
stripped_text(u) ==
    IF u.message.present /\ u.message.text.t = "str" THEN strip(u.message.text.v)
    ELSE <<>>

\* validate prompting for a query where line 121 returns
validate_prompting(u) ==
    IF ~u.message.present \/ ~Truthy(u.message.text) THEN "L125"
    ELSE IF stripped_text(u) = <<>> THEN "L125"
    ELSE "L129"

\* lines 120-126 up to the first await: "returned" (line 121), "L125" (the
\* prompt is being sent) or "L129" (the acknowledgement is being sent)
validate(u) ==
    IF ~u.message.present \/ ~Truthy(u.message.text) THEN "returned"
    ELSE IF stripped_text(u) = <<>> THEN "L125"
    ELSE "L129"

\* is_failure without the test for "unavailable"
is_failure_error_only(res) == contains(MARK_ERROR, lower(res))

\* is_failure taking the no-results sentinel for a failure as well
is_failure_no_results(res) ==
    \/ contains(MARK_ERROR, lower(res))
    \/ contains(MARK_UNAVAILABLE, lower(res))
    \/ res = NO_RESULTS

\* is_failure comparing without results.lower()
is_failure_case_sensitive(res) ==
    contains(MARK_ERROR, res) \/ contains(MARK_UNAVAILABLE, res)

\* line 132: "error" in results.lower() or "unavailable" in results.lower()
is_failure(res) ==
    contains(MARK_ERROR, lower(res)) \/ contains(MARK_UNAVAILABLE, lower(res))

\* lines 152-160: the exception raised inside the try block of
\* telegram_webhook before or instead of process_update, or "none"
webhook_try(b) ==
    CASE b.kind = "not_json" -> [exc |-> "JSONDecodeError", status_code |-> 0]
      [] b.kind = "bad_fields" -> [exc |-> "TypeError", status_code |-> 0]
      [] b.kind = "no_update" -> [exc |-> "HTTPException", status_code |-> 400]
      [] b.kind = "update" -> [exc |-> "none", status_code |-> 0]

\* lines 162-164: `except Exception` catches every exception of the try
\* block, HTTPException included, and answers 500
webhook_except(t) == 500

\* lines 157-158: the status the webhook has answered once handle_message
\* stands at h; process_update returns normally whether the handler returned
\* or raised ("escaped"), and the webhook answers {"ok": True}
Answered(s, h) == IF h \in {"returned", "escaped"} THEN 200 ELSE s

\* POST /webhook arrives while the application serves: lines 152-158 up to
\* the first await of the handler.  Handlers in flight go on while lifespan
\* shuts down: nothing in lifespan waits for them.
telegram_webhook(r) ==
    /\ lifespan_pc = "L41"
    /\ hpc[r] = "idle"
    /\ \E i \in 1..Len(Bodies(ChatOf(r))) :
        LET b == Bodies(ChatOf(r))[i]
            t == webhook_try(b)
        IN  /\ body' = [body EXCEPT ![r] = b]
            /\ IF t.exc # "none"
               THEN /\ status' = [status EXCEPT ![r] = webhook_except(t)]
                    /\ trace' = [trace EXCEPT ![r] = <<Log(LOG_WEBHOOK)>>]
                    /\ hpc' = [hpc EXCEPT ![r] = "not_called"]
                    /\ query' = query
               ELSE IF ~handler_matches(b.update)
               THEN /\ status' = [status EXCEPT ![r] = 200]
                    /\ hpc' = [hpc EXCEPT ![r] = "not_called"]
                    /\ UNCHANGED <<trace, query>>
               ELSE /\ hpc' = [hpc EXCEPT ![r] = validate(b.update)]
                    /\ query' = [query EXCEPT ![r] = stripped_text(b.update)]
                    /\ status' = [status EXCEPT ![r] = Answered(@, hpc'[r])]
                    /\ trace' = trace
    /\ UNCHANGED <<lifespanVars, health, results, summary>>

\* reply_text replying in one chat whatever the update
reply_chat_shared(r) == Chats[1]

\* update.message.reply_text replies in the chat of the update's message
reply_chat(r) == body[r].update.message.chat

\* await update.message.reply_text(text) inside the try block: the reply is
\* delivered and the handler goes on to `next`, or the call raises and the
\* except clause logs (line 144) and sends the apology (line 145)
reply_text(r, text, next) ==
    /\ \/ /\ trace' = [trace EXCEPT ![r] = Append(@, To(reply_chat(r), Reply(text)))]
          /\ hpc' = [hpc EXCEPT ![r] = next]
       \/ /\ trace' = [trace EXCEPT ![r] = @ \o <<To(reply_chat(r), ReplyFailed(text)), Log(LOG_HANDLER)>>]
          /\ hpc' = [hpc EXCEPT ![r] = "L145"]
    /\ status' = [status EXCEPT ![r] = Answered(@, hpc'[r])]

\* line 125
reply_prompt(r) ==
    /\ hpc[r] = "L125"
    /\ reply_text(r, PROMPT_FOR_QUERY, "returned")
    /\ UNCHANGED <<lifespanVars, health, body, query, results, summary>>

\* reply_searching with the acknowledgement left out
reply_searching_omitted(r) ==
    /\ hpc[r] = "L129"
    /\ hpc' = [hpc EXCEPT ![r] = "L130"]
    /\ UNCHANGED <<lifespanVars, health, body, status, query, results, summary, trace>>

\* line 129
reply_searching(r) ==
    /\ hpc[r] = "L129"
    /\ reply_text(r, ACK_SEARCH, "L130")
    /\ UNCHANGED <<lifespanVars, health, body, query, results, summary>>

\* SentEvents with every request issued twice
SentEvents_repeated(sent, ev) == IF sent THEN <<ev, ev>> ELSE <<>>

SentEvents(sent, ev) == IF sent THEN <<ev>> ELSE <<>>
LogEvents(log) == IF log = <<>> THEN <<>> ELSE <<Log(log)>>

\* lines 130-132: brave_search is awaited and its result inspected
search(r) ==
    /\ hpc[r] = "L130"
    /\ \E i \in 1..Len(SearchResponses) :
        LET res == brave_search(query[r], http_client, SearchResponses[i])
        IN  IF res.raised
            THEN /\ trace' = [trace EXCEPT ![r] =
                        @ \o SentEvents(res.sent, Get(res.q)) \o <<Log(LOG_HANDLER)>>]
                 /\ hpc' = [hpc EXCEPT ![r] = "L145"]
                 /\ results' = results
            ELSE /\ trace' = [trace EXCEPT ![r] =
                        @ \o SentEvents(res.sent, Get(res.q)) \o LogEvents(res.log)]
                 /\ results' = [results EXCEPT ![r] = res.value]
                 /\ hpc' = [hpc EXCEPT ![r] =
                        IF is_failure(res.value) THEN "L133" ELSE "L137"]
    /\ UNCHANGED <<lifespanVars, health, body, status, query, summary>>

\* lines 133-134
reply_failure(r) ==
    /\ hpc[r] = "L133"
    /\ reply_text(r, results[r], "returned")
    /\ UNCHANGED <<lifespanVars, health, body, query, results, summary>>

\* reply_summarizing with the acknowledgement left out
reply_summarizing_omitted(r) ==
    /\ hpc[r] = "L137"
    /\ hpc' = [hpc EXCEPT ![r] = "L138"]
    /\ UNCHANGED <<lifespanVars, health, body, status, query, results, summary, trace>>

\* line 137
reply_summarizing(r) ==
    /\ hpc[r] = "L137"
    /\ reply_text(r, ACK_SUMMARY, "L138")
    /\ UNCHANGED <<lifespanVars, health, body, query, results, summary>>

\* line 138: summarize_with_openai is awaited
summarize(r) ==
    /\ hpc[r] = "L138"
    /\ \E i \in 1..Len(SummaryResponses) :
        LET res == summarize_with_openai(results[r], http_client, SummaryResponses[i])
        IN  IF res.raised
            THEN /\ trace' = [trace EXCEPT ![r] =
                        @ \o SentEvents(res.sent, Post(res.prompt)) \o <<Log(LOG_HANDLER)>>]
                 /\ hpc' = [hpc EXCEPT ![r] = "L145"]
                 /\ summary' = summary
            ELSE /\ trace' = [trace EXCEPT ![r] =
                        @ \o SentEvents(res.sent, Post(res.prompt)) \o LogEvents(res.log)]
                 /\ summary' = [summary EXCEPT ![r] = res.value]
                 /\ hpc' = [hpc EXCEPT ![r] = "L141"]
    /\ UNCHANGED <<lifespanVars, health, body, status, query, results>>

\* the text reply_text is given for a summary; a summary that is not a str
\* has none
SummaryText(s) == IF s.t = "str" THEN s.v ELSE <<>>

\* reply_summary apologising for a summary that looks like a failure
reply_summary_detecting(r) ==
    /\ hpc[r] = "L141"
    /\ IF is_failure(SummaryText(summary[r]))
       THEN reply_text(r, APOLOGY, "returned")
       ELSE reply_text(r, SummaryText(summary[r]), "returned")
    /\ summary[r].t # "str" => hpc'[r] = "L145"
    /\ UNCHANGED <<lifespanVars, health, body, query, results, summary>>

\* line 141: a summary that is not a str cannot be delivered, the call raises
reply_summary(r) ==
    /\ hpc[r] = "L141"
    /\ reply_text(r, SummaryText(summary[r]), "returned")
    /\ summary[r].t # "str" => hpc'[r] = "L145"
    /\ UNCHANGED <<lifespanVars, health, body, query, results, summary>>

\* line 145, in the except clause: the apology is delivered, or the call
\* raises and the exception leaves handle_message
reply_apology(r) ==
    /\ hpc[r] = "L145"
    /\ \/ /\ trace' = [trace EXCEPT ![r] = Append(@, To(reply_chat(r), Reply(APOLOGY)))]
          /\ hpc' = [hpc EXCEPT ![r] = "returned"]
       \/ /\ trace' = [trace EXCEPT ![r] = Append(@, To(reply_chat(r), ReplyFailed(APOLOGY)))]
          /\ hpc' = [hpc EXCEPT ![r] = "escaped"]
    /\ status' = [status EXCEPT ![r] = Answered(@, hpc'[r])]
    /\ UNCHANGED <<lifespanVars, health, body, query, results, summary>>

\* startup is over: the application has begun to serve requests
Started == lifespan_pc \notin {"L35", "L38", "raised_L37", "raised_L38"}

\* health_check reporting a running engine whatever telegram_app.running is
health_check_always_running ==
    /\ Started
    /\ health' = [status_code |-> 200, status |-> "healthy", bot_running |-> TRUE]
    /\ UNCHANGED <<lifespanVars, requestVars>>

\* lines 167-169: GET /health; the handler awaits nothing and reads
\* telegram_app.running
health_check ==
    /\ Started
    /\ health' = [status_code |-> 200, status |-> "healthy", bot_running |-> running]
    /\ UNCHANGED <<lifespanVars, requestVars>>

Next ==
    \/ lifespan_initialize
    \/ lifespan_start
    \/ lifespan_stop
    \/ lifespan_aclose
    \/ health_check
    \/ \E r \in Requests :
        \/ telegram_webhook(r)
        \/ reply_prompt(r)
        \/ reply_searching(r)
        \/ search(r)
        \/ reply_failure(r)
        \/ reply_summarizing(r)
        \/ summarize(r)
        \/ reply_summary(r)
        \/ reply_apology(r)

Spec == Init /\ [][Next]_vars

\* ------------------------------------------------------------------------
\* Observations on a request's trace
\* ------------------------------------------------------------------------

IsReplyEvent(ev) == ev.e = "reply"
IsFailedReplyEvent(ev) == ev.e = "reply_failed"
IsGetEvent(ev) == ev.e = "get"
IsPostEvent(ev) == ev.e = "post"

\* the texts delivered to the chat, in order
RepliesOf(tr) ==
    LET s == SelectSeq(tr, IsReplyEvent) IN [i \in 1..Len(s) |-> s[i].text]
Replies(r) == RepliesOf(trace[r])

GetsOf(tr) == Len(SelectSeq(tr, IsGetEvent))
PostsOf(tr) == Len(SelectSeq(tr, IsPostEvent))
Gets(r) == GetsOf(trace[r])
Posts(r) == PostsOf(trace[r])

\* some reply_text call of the request raised
SendRaised(r) == SelectSeq(trace[r], IsFailedReplyEvent) # <<>>
\* the call of reply_text for this text raised
SendOfRaised(r, text) ==
    \E i \in 1..Len(trace[r]) : trace[r][i].e = "reply_failed" /\ trace[r][i].text = text

Logged(r, text) ==
    \E i \in 1..Len(trace[r]) : trace[r][i].e = "log" /\ trace[r][i].text = text

InReplies(r, text) == \E i \in 1..Len(Replies(r)) : Replies(r)[i] = text

\* handle_message was called for the request and is over
Finished(r) == hpc[r] \in {"returned", "escaped"}

\* the request carries a message whose text is a str
HasText(r) ==
    /\ body[r].kind = "update"
    /\ body[r].update.message.present
    /\ body[r].update.message.text.t = "str"
TextOf(r) == body[r].update.message.text.v

RECURSIVE SplitLines(_)
\* s.split("\n")
SplitLines(s) ==
    IF \A i \in 1..Len(s) : s[i] # "\n" THEN <<s>>
    ELSE LET k == CHOOSE i \in 1..Len(s) : s[i] = "\n" /\ \A j \in 1..(i - 1) : s[j] # "\n"
         IN  <<SubSeq(s, 1, k - 1)>> \o SplitLines(SubSeq(s, k + 1, Len(s)))

\* a digest: one to three lines, each "<title> - <url>"
IsDigest(s) ==
    LET lines == SplitLines(s)
    IN  /\ Len(lines) \in 1..3
        /\ \A i \in 1..Len(lines) : contains(TITLE_URL_SEP, lines[i])

SearchSentinels == {SEARCH_UNAVAILABLE, SEARCH_ERROR}

\* ------------------------------------------------------------------------
\* Claims
\* ------------------------------------------------------------------------

\* C1 (as claimed): a POST /webhook whose body Update.de_json turns into
\* nothing is answered with HTTP 400, and the request causes no reply and no
\* outbound search or summarization call.
C1_UnparseableAnswered400 ==
    \A r \in Requests :
        body[r].kind = "no_update" =>
            /\ status[r] = 400
            /\ Replies(r) = <<>>
            /\ Gets(r) = 0
            /\ Posts(r) = 0

\* the search of the request succeeded with results
SearchSucceeded(r) ==
    /\ Gets(r) = 1
    /\ ~Logged(r, LOG_BRAVE)
    /\ ~Logged(r, LOG_BRAVE_UNEXPECTED)
    /\ IsDigest(results[r])

\* the summarization of the request succeeded: the provider's content came back
SummarizationSucceeded(r) ==
    /\ Posts(r) = 1
    /\ ~Logged(r, LOG_OPENAI)
    /\ ~Logged(r, LOG_OPENAI_UNEXPECTED)
    /\ summary[r] # JStr(NO_SUMMARY)

\* C2 (as claimed): when the search succeeded with results and the
\* summarization succeeded, the replies of the finished handler are exactly
\* the search acknowledgement, the summary acknowledgement and the summary.
C2_ThreeRepliesAsClaimed ==
    \A r \in Requests :
        (Finished(r) /\ SearchSucceeded(r) /\ SummarizationSucceeded(r)) =>
            Replies(r) = <<ACK_SEARCH, ACK_SUMMARY, SummaryText(summary[r])>>

\* C2 (amended): when the search succeeded with results and the summarization
\* succeeded, the replies of the finished handler are exactly the search
\* acknowledgement, the summary acknowledgement and the summary, provided the
\* send of the summary did not raise; when it raised, the two
\* acknowledgements are followed by nothing but the apology of the except
\* clause, if that one is delivered.
C2_ThreeReplies ==
    \A r \in Requests :
        (Finished(r) /\ SearchSucceeded(r) /\ SummarizationSucceeded(r)) =>
            IF SendRaised(r)
            THEN /\ SendOfRaised(r, SummaryText(summary[r]))
                 /\ Replies(r) \in {<<ACK_SEARCH, ACK_SUMMARY>>,
                                    <<ACK_SEARCH, ACK_SUMMARY, APOLOGY>>}
            ELSE Replies(r) = <<ACK_SEARCH, ACK_SUMMARY, SummaryText(summary[r])>>

C2_Witness ==
    \E r \in Requests :
        /\ Finished(r) /\ SearchSucceeded(r) /\ SummarizationSucceeded(r)
        /\ ~SendRaised(r)
        /\ Len(SplitLines(results[r])) = 3
        /\ Replies(r) = <<ACK_SEARCH, ACK_SUMMARY, CONTENT_A>>

\* C3 (as claimed): when brave_search returned a failure sentinel, the
\* sentinel is the last reply of the finished handler, summarize_with_openai
\* is never invoked and the summary acknowledgement is never sent.
C3_SentinelRelayedAsClaimed ==
    \A r \in Requests :
        results[r] \in SearchSentinels =>
            /\ Posts(r) = 0
            /\ ~InReplies(r, ACK_SUMMARY)
            /\ Finished(r) => /\ Replies(r) # <<>>
                              /\ Replies(r)[Len(Replies(r))] = results[r]

\* C3 (amended): when brave_search returned a failure sentinel,
\* summarize_with_openai is never invoked and the summary acknowledgement is
\* never sent; the finished handler has replied the search acknowledgement
\* and then exactly that sentinel, unless the send of the sentinel raised:
\* then the only reply after the acknowledgement is the apology of the
\* except clause, if that one is delivered.
C3_SentinelRelayed ==
    \A r \in Requests :
        results[r] \in SearchSentinels =>
            /\ Posts(r) = 0
            /\ ~InReplies(r, ACK_SUMMARY)
            /\ Finished(r) =>
                IF SendRaised(r)
                THEN /\ SendOfRaised(r, results[r])
                     /\ Replies(r) \in {<<ACK_SEARCH>>, <<ACK_SEARCH, APOLOGY>>}
                ELSE Replies(r) = <<ACK_SEARCH, results[r]>>

C3_Witness ==
    /\ \E r \in Requests :
        /\ Finished(r)
        /\ results[r] = SEARCH_UNAVAILABLE
        /\ Replies(r) = <<ACK_SEARCH, SEARCH_UNAVAILABLE>>
    /\ \E r \in Requests :
        /\ Finished(r)
        /\ results[r] = SEARCH_ERROR
        /\ Replies(r) = <<ACK_SEARCH, SEARCH_ERROR>>

\* C4 (as claimed): a message whose text is the empty string or only
\* whitespace gets exactly one reply, the prompt for a query, and causes no
\* call to either provider.
C4_EmptyTextPrompted ==
    \A r \in Requests :
        (HasText(r) /\ strip(TextOf(r)) = <<>> /\ status[r] # 0) =>
            /\ Replies(r) = <<PROMPT_FOR_QUERY>>
            /\ Gets(r) = 0
            /\ Posts(r) = 0

\* the update of the request has no message, or a message with no text field
NoTextField(r) ==
    /\ body[r].kind = "update"
    /\ \/ ~body[r].update.message.present
       \/ body[r].update.message.text.t = "null"

\* C5: an update that has no message, or whose message has no text field,
\* gets no reply (none is even attempted) and causes no call to either
\* provider.
C5_NoTextNoAction ==
    \A r \in Requests :
        NoTextField(r) =>
            /\ Replies(r) = <<>>
            /\ ~SendRaised(r)
            /\ Gets(r) = 0
            /\ Posts(r) = 0
            /\ hpc[r] \in {"returned", "not_called"}

C5_Witness ==
    /\ \E r \in Requests :
        /\ NoTextField(r) /\ ~body[r].update.message.present
        /\ hpc[r] = "returned" /\ status[r] = 200 /\ trace[r] = <<>>
    /\ \E r \in Requests :
        /\ NoTextField(r) /\ body[r].update.message.present
        /\ status[r] = 200 /\ trace[r] = <<>>

\* the Validate step of the request returned without a reply (line 121)
SilentlyRejected(r) == body[r].kind = "update" /\ validate(body[r].update) = "returned"

\* C6 (as claimed): no exception leaves handle_message; a finished handler
\* that did not reject silently has delivered at least one reply; and an
\* exception in any step is answered with exactly one apology.
C6_AlwaysAnswered ==
    \A r \in Requests :
        /\ hpc[r] # "escaped"
        /\ (Finished(r) /\ ~SilentlyRejected(r)) => Replies(r) # <<>>
        /\ (Finished(r) /\ Logged(r, LOG_HANDLER)) =>
                Len(SelectSeq(Replies(r), LAMBDA t : t = APOLOGY)) = 1

\* C7 (as claimed): once shutdown is over, whether lifespan returned or
\* raised, the dispatch engine is stopped and the shared client is closed.
C7_ShutdownReleasesBoth ==
    lifespan_pc \in {"exited", "raised_L43", "raised_L44"} =>
        /\ ~running
        /\ http_client = "closed"

\* ------------------------------------------------------------------------
\* Claims about the stages
\* ------------------------------------------------------------------------

LastEvent(tr) == tr[Len(tr)]

\* brave_search returns to handle_message in this step
SearchReturns(r) == hpc[r] = "L130" /\ hpc'[r] # "L130"

\* what C8 lets brave_search return, each failure sentinel with the log line
\* of its except clause
SearchReturnAllowed(value, tr) ==
    /\ \/ IsDigest(value)
       \/ value = NO_RESULTS
       \/ value \in SearchSentinels
    /\ value = SEARCH_UNAVAILABLE <=> LastEvent(tr) = Log(LOG_BRAVE)
    /\ value = SEARCH_ERROR <=> LastEvent(tr) = Log(LOG_BRAVE_UNEXPECTED)

\* C8 (as claimed): every call of brave_search sends exactly one GET and
\* returns, without raising, a digest of one to three lines, the no-results
\* sentinel, the unavailable sentinel (transport/HTTP error) or the error
\* sentinel (any other exception).
C8_SearchContractAsClaimed ==
    [][\A r \in Requests :
        SearchReturns(r) =>
            /\ hpc'[r] \in {"L133", "L137"}
            /\ GetsOf(trace'[r]) = GetsOf(trace[r]) + 1
            /\ SearchReturnAllowed(results'[r], trace'[r])]_vars

\* C8 (amended): every call of brave_search sends at most one GET, exactly
\* one while the shared client is open and none when the client is unusable
\* (not created yet, or closed), where it returns the error sentinel; it
\* returns, without raising, a digest of one to three lines, the no-results
\* sentinel, the unavailable sentinel (transport/HTTP error) or the error
\* sentinel (any other exception).
C8_SearchContract ==
    [][\A r \in Requests :
        SearchReturns(r) =>
            /\ hpc'[r] \in {"L133", "L137"}
            /\ GetsOf(trace'[r]) = GetsOf(trace[r]) + (IF http_client = "open" THEN 1 ELSE 0)
            /\ http_client # "open" => results'[r] = SEARCH_ERROR
            /\ SearchReturnAllowed(results'[r], trace'[r])]_vars

C8_Witness ==
    /\ \E r \in Requests :
        /\ hpc[r] = "L137"
        /\ Len(SplitLines(results[r])) = 3
        /\ Gets(r) = 1
    /\ \E r \in Requests :
        /\ hpc[r] = "L133"
        /\ results[r] = SEARCH_ERROR
        /\ Gets(r) = 0

\* a and b are the same JSON value (the tag is compared first)
SameValue(a, b) == a.t = b.t /\ (a.t = "null" \/ a.v = b.v)

\* c is the content of the first choice of a well-formed 2xx response
IsFirstChoiceContent(resp, c) ==
    /\ resp.transport = "ok" /\ IsSuccess(resp.status) /\ resp.json
    /\ resp.data.t = "dict"
    /\ "choices" \in DOMAIN resp.data.v
    /\ LET choices == resp.data.v["choices"] IN
        /\ choices.t = "list"
        /\ Len(choices.v) >= 1
        /\ choices.v[1].t = "dict"
        /\ "message" \in DOMAIN choices.v[1].v
        /\ LET message == choices.v[1].v["message"] IN
            /\ message.t = "dict"
            /\ "content" \in DOMAIN message.v
            /\ SameValue(message.v["content"], c)

\* summarize_with_openai returns to handle_message in this step
SummarizeReturns(r) == hpc[r] = "L138" /\ hpc'[r] # "L138"

\* what C9 lets summarize_with_openai return, each failure sentinel with the
\* log line of its except clause
SummaryReturnAllowed(value, tr) ==
    /\ \/ \E i \in 1..Len(SummaryResponses) : IsFirstChoiceContent(SummaryResponses[i], value)
       \/ SameValue(value, JStr(NO_SUMMARY))
       \/ SameValue(value, JStr(SUMMARY_UNAVAILABLE))
       \/ SameValue(value, JStr(SUMMARY_ERROR))
    /\ SameValue(value, JStr(SUMMARY_UNAVAILABLE)) <=> LastEvent(tr) = Log(LOG_OPENAI)
    /\ SameValue(value, JStr(SUMMARY_ERROR)) <=> LastEvent(tr) = Log(LOG_OPENAI_UNEXPECTED)

\* C9: every call of summarize_with_openai returns, without raising, the
\* content of the provider's first choice, the no-summary sentinel, the
\* unavailable sentinel (transport/HTTP error) or the error sentinel (any
\* other exception).
C9_SummaryContract ==
    [][\A r \in Requests :
        SummarizeReturns(r) =>
            /\ hpc'[r] = "L141"
            /\ SummaryReturnAllowed(summary'[r], trace'[r])]_vars

C9_Witness ==
    /\ \E r \in Requests :
        /\ hpc[r] = "L141"
        /\ SameValue(summary[r], JStr(CONTENT_A))
        /\ Posts(r) = 1
    /\ \E r \in Requests :
        /\ hpc[r] = "L141"
        /\ SameValue(summary[r], JStr(SUMMARY_ERROR))

\* validation rejected the text with the prompt (lines 124-126)
RejectedWithPrompt(r) ==
    /\ Finished(r)
    /\ HasText(r)
    /\ TextOf(r) # <<>>
    /\ strip(TextOf(r)) = <<>>

\* the pipeline stopped because the Search Stage failed
StoppedOnSearchFailure(r) == Finished(r) /\ results[r] \in SearchSentinels

RequestState(r) ==
    <<body[r], status[r], hpc[r], query[r], results[r], summary[r], trace[r]>>

\* the event is made of the request's own message and provider responses
OwnEvent(r, ev) ==
    CASE ev.e \in {"reply", "reply_failed"} ->
            /\ ev.chat = body[r].update.message.chat
            /\ ev.text \in {PROMPT_FOR_QUERY, ACK_SEARCH, ACK_SUMMARY, APOLOGY,
                            results[r], SummaryText(summary[r])}
      [] ev.e = "get" -> HasText(r) /\ ev.text = strip(TextOf(r))
      [] ev.e = "post" -> ev.text = SUMMARY_PROMPT \o results[r]
      [] OTHER -> TRUE

\* a step that changes what the server holds for one request changes nothing
\* of any other request, and leaves the engine, the client and the lifespan
\* where they were, so that the server goes on handling messages
OwnStep ==
    \A r \in Requests :
        RequestState(r)' # RequestState(r) =>
            /\ \A s \in Requests \ {r} : RequestState(s)' = RequestState(s)
            /\ UNCHANGED lifespanVars

\* C11: concurrent handle_message invocations do not interact. Every reply and
\* outbound call of a request is made of its own message text and its own
\* provider responses, and every reply goes to the chat of its own message; a
\* step of one request, a failure included, changes nothing of another
\* request and does not stop the server.
C11_NoInteraction ==
    /\ [](\A r \in Requests : \A i \in 1..Len(trace[r]) : OwnEvent(r, trace[r][i]))
    /\ [][OwnStep]_vars

C11_Witness ==
    \E r, s \in Requests :
        /\ hpc[s] = "escaped"
        /\ hpc[r] = "returned"
        /\ Replies(r) = <<ACK_SEARCH, ACK_SUMMARY, CONTENT_A>>
        /\ \A i \in 1..Len(trace[r]) :
            trace[r][i].e = "reply" => trace[r][i].chat = ChatOf(r)
        /\ ChatOf(r) # ChatOf(s)

\* handle_message is suspended at one of its awaits
InFlight(r) == hpc[r] \notin {"idle", "not_called", "returned", "escaped"}

\* C12: once startup is over, in every state, pipelines in flight and a
\* stopped engine included, GET /health can be served at once; each answer
\* is HTTP 200 with status "healthy" and a boolean bot_running equal to the
\* engine's running flag at that moment, and serving it changes nothing of
\* any pipeline, of the engine or of the client.
C12_HealthAnswers ==
    [][/\ Started => ENABLED health_check
       /\ health' # health =>
            /\ health' = [status_code |-> 200, status |-> "healthy",
                           bot_running |-> running]
            /\ health'.bot_running \in BOOLEAN
            /\ UNCHANGED <<lifespanVars, requestVars>>]_vars

C12_Witness ==
    /\ ~running
    /\ health = [status_code |-> 200, status |-> "healthy", bot_running |-> FALSE]
    /\ \E r \in Requests : InFlight(r)

\* the event is the delivered reply of this text
IsDelivered(ev, text) == ev.e = "reply" /\ ev.text = text

\* some event before position i of the sequence satisfies Earlier
HasBefore(tr, i, Earlier(_)) == \E j \in 1..(i - 1) : Earlier(tr[j])

\* C13: the steps of one message are strictly sequential and never repeated.
\* The search acknowledgement has been delivered before the search call
\* begins, the search request has been made and brave_search has returned
\* before the summary acknowledgement is sent, the summarization call begins
\* only after that acknowledgement has been delivered, and each provider is
\* called at most once per message.
C13_Sequential ==
    \A r \in Requests :
        LET tr == trace[r]
            AckSearch(ev) == IsDelivered(ev, ACK_SEARCH)
            AckSummary(ev) == IsDelivered(ev, ACK_SUMMARY)
        IN  /\ Gets(r) <= 1
            /\ Posts(r) <= 1
            /\ hpc[r] = "L130" =>
                    /\ Replies(r) = <<ACK_SEARCH>>
                    /\ Gets(r) = 0
            /\ hpc[r] = "L138" =>
                    /\ Replies(r) = <<ACK_SEARCH, ACK_SUMMARY>>
                    /\ Gets(r) = 1
                    /\ Posts(r) = 0
            /\ \A i \in 1..Len(tr) :
                /\ IsGetEvent(tr[i]) => HasBefore(tr, i, AckSearch)
                /\ AckSummary(tr[i]) => HasBefore(tr, i, IsGetEvent)
                /\ tr[i].e = "reply_failed" /\ tr[i].text = ACK_SUMMARY =>
                        HasBefore(tr, i, IsGetEvent)
                /\ IsPostEvent(tr[i]) => HasBefore(tr, i, AckSummary)

C13_Witness ==
    \E r \in Requests :
        /\ hpc[r] = "L141"
        /\ Gets(r) = 1
        /\ Posts(r) = 1
        /\ Replies(r) = <<ACK_SEARCH, ACK_SUMMARY>>

\* brave_search has returned a string to the handler of the request
SearchReturned(r) == results[r] # <<>>

\* the string contains "error" or "unavailable", whatever the case of its
\* letters
HasMarker(s) ==
    \E i \in 1..Len(s) :
        \E m \in {MARK_ERROR, MARK_UNAVAILABLE} :
            /\ i + Len(m) - 1 <= Len(s)
            /\ \A k \in 1..Len(m) : LowerChar(s[i + k - 1]) = m[k]

\* summarize_with_openai was invoked for the request: it made its request,
\* or logged why it could not
SummarizeInvoked(r) ==
    Posts(r) > 0 \/ Logged(r, LOG_OPENAI) \/ Logged(r, LOG_OPENAI_UNEXPECTED)

\* C14 (as claimed): of a finished handler to which brave_search returned,
\* summarize_with_openai was invoked if and only if the returned string
\* contains neither "error" nor "unavailable", compared case-insensitively;
\* a returned string that contains one of them, a digest included, was
\* relayed verbatim after the search acknowledgement and nothing else sent.
C14_MarkerDecidesAsClaimed ==
    \A r \in Requests :
        (Finished(r) /\ SearchReturned(r)) =>
            /\ SummarizeInvoked(r) <=> ~HasMarker(results[r])
            /\ HasMarker(results[r]) => Replies(r) = <<ACK_SEARCH, results[r]>>

\* C14 (amended): summarize_with_openai is invoked only for a returned string
\* that contains neither "error" nor "unavailable", compared
\* case-insensitively. Of a finished handler to which brave_search returned
\* such a string, it was invoked unless the send of the summary
\* acknowledgement raised. A returned string that contains one of the words,
\* a digest included, is never followed by the summary acknowledgement, and
\* the finished handler has relayed it verbatim after the search
\* acknowledgement and sent nothing else, unless the send of that relay
\* raised: then the only reply after the acknowledgement is the apology of
\* the except clause, if that one is delivered.
C14_MarkerDecides ==
    \A r \in Requests :
        /\ SummarizeInvoked(r) => SearchReturned(r) /\ ~HasMarker(results[r])
        /\ (Finished(r) /\ SearchReturned(r)) =>
            IF HasMarker(results[r])
            THEN /\ ~InReplies(r, ACK_SUMMARY)
                 /\ ~SendOfRaised(r, ACK_SUMMARY)
                 /\ IF SendRaised(r)
                    THEN /\ SendOfRaised(r, results[r])
                         /\ Replies(r) \in {<<ACK_SEARCH>>, <<ACK_SEARCH, APOLOGY>>}
                    ELSE Replies(r) = <<ACK_SEARCH, results[r]>>
            ELSE SummarizeInvoked(r) <=> ~SendOfRaised(r, ACK_SUMMARY)

C14_Witness ==
    /\ \E r \in Requests :
        /\ Finished(r)
        /\ IsDigest(results[r])
        /\ HasMarker(results[r])
        /\ Replies(r) = <<ACK_SEARCH, results[r]>>
    /\ \E r \in Requests :
        /\ Finished(r)
        /\ SearchReturned(r)
        /\ ~HasMarker(results[r])
        /\ SummarizeInvoked(r)

\* the well-formed answers of the search provider that carry no result
EmptyResultSets == <<
    Ok(WebResults(JList(<<>>))),
    Ok(JDict([web |-> EmptyDict])),
    Ok(EmptyDict)
>>

\* brave_search, called with a usable client, answers an empty result set
\* with the no-results sentinel and logs nothing
EmptyIsNoFailure ==
    \A i \in 1..Len(EmptyResultSets) :
        LET res == brave_search(strip(TEXT_QUERY), "open", EmptyResultSets[i])
        IN  /\ ~res.raised
            /\ res.value = NO_RESULTS
            /\ res.log = <<>>

\* brave_search returned the no-results sentinel to the finished handler
FinishedWithNoResults(r) == Finished(r) /\ results[r] = NO_RESULTS

\* C15 (as claimed): brave_search answers a well-formed but empty result set
\* with "No search results found." and logs no error; the finished handler
\* has not stopped there but sent the summary acknowledgement, invoked
\* summarize_with_openai on that sentinel, and sent three replies.
C15_EmptyContinuesAsClaimed ==
    /\ EmptyIsNoFailure
    /\ \A r \in Requests :
        FinishedWithNoResults(r) =>
            /\ ~Logged(r, LOG_BRAVE) /\ ~Logged(r, LOG_BRAVE_UNEXPECTED)
            /\ InReplies(r, ACK_SUMMARY)
            /\ SummarizeInvoked(r)
            /\ Len(Replies(r)) = 3

\* C15 (amended): brave_search answers a well-formed but empty result set
\* with "No search results found." and logs no error; the handler does not
\* relay that sentinel but goes on to send the summary acknowledgement. When
\* that send is delivered it invokes summarize_with_openai on the sentinel,
\* and the finished handler has sent three replies, the two acknowledgements
\* and the summary, provided no send raised; when a send raised, the replies
\* delivered before it are followed by nothing but the apology of the except
\* clause, if that one is delivered.
C15_EmptyContinues ==
    /\ EmptyIsNoFailure
    /\ \A r \in Requests :
        FinishedWithNoResults(r) =>
            /\ ~Logged(r, LOG_BRAVE) /\ ~Logged(r, LOG_BRAVE_UNEXPECTED)
            /\ InReplies(r, ACK_SUMMARY) \/ SendOfRaised(r, ACK_SUMMARY)
            /\ InReplies(r, ACK_SUMMARY) => SummarizeInvoked(r)
            /\ \A i \in 1..Len(trace[r]) :
                IsPostEvent(trace[r][i]) =>
                    trace[r][i].text = SUMMARY_PROMPT \o NO_RESULTS
            /\ IF SendRaised(r)
               THEN Replies(r) \in {<<ACK_SEARCH>>,
                                    <<ACK_SEARCH, APOLOGY>>,
                                    <<ACK_SEARCH, ACK_SUMMARY>>,
                                    <<ACK_SEARCH, ACK_SUMMARY, APOLOGY>>}
               ELSE Replies(r) = <<ACK_SEARCH, ACK_SUMMARY, SummaryText(summary[r])>>

C15_Witness ==
    \E r \in Requests :
        /\ FinishedWithNoResults(r)
        /\ Gets(r) = 1
        /\ Posts(r) = 1
        /\ ~SendRaised(r)
        /\ Len(Replies(r)) = 3

\* a step opens the client only when there was none and closes it only when
\* it was open; it starts the engine only with the client open and closes
\* the client only with the engine stopped
ClientStep ==
    /\ http_client' # http_client =>
            \/ http_client = "None" /\ http_client' = "open"
            \/ http_client = "open" /\ http_client' = "closed"
    /\ (~running /\ running') => http_client = "open" /\ http_client' = "open"
    /\ http_client' = "closed" => ~running /\ ~running'

\* C16: in every state of the lifecycle a running engine has the shared HTTP
\* client opened and not yet closed; startup opens the client before it
\* starts the engine, shutdown stops the engine before it closes the client,
\* and the client is opened at most once and closed at most once.
C16_RunningHasClient ==
    /\ [](running => http_client = "open")
    /\ [][ClientStep]_vars

C16_Witness ==
    /\ lifespan_pc = "exited"
    /\ ~running
    /\ http_client = "closed"
    /\ \E r \in Requests : Finished(r)

\* summarize_with_openai returned one of its sentinels to the handler
SummarySentinels == {NO_SUMMARY, SUMMARY_UNAVAILABLE, SUMMARY_ERROR}
SummaryIsSentinel(r) == summary[r].t = "str" /\ summary[r].v \in SummarySentinels

\* C17 (as claimed): when summarize_with_openai returned one of its failure
\* or no-content sentinels, the finished handler has sent exactly three
\* replies, the search acknowledgement, the summary acknowledgement and the
\* sentinel verbatim, and no apology.
C17_SummarySentinelAsClaimed ==
    \A r \in Requests :
        (Finished(r) /\ SummaryIsSentinel(r)) =>
            /\ Replies(r) = <<ACK_SEARCH, ACK_SUMMARY, summary[r].v>>
            /\ ~InReplies(r, APOLOGY)

\* C17 (amended): when summarize_with_openai returned one of its failure or
\* no-content sentinels, the handler inspects nothing and sends the sentinel
\* verbatim: the finished handler has sent exactly three replies, the search
\* acknowledgement, the summary acknowledgement and the sentinel, and no
\* apology, provided the send of the sentinel did not raise; when it raised,
\* the two acknowledgements are followed by nothing but the apology of the
\* except clause, if that one is delivered.
C17_SummarySentinel ==
    \A r \in Requests :
        (Finished(r) /\ SummaryIsSentinel(r)) =>
            IF SendRaised(r)
            THEN /\ SendOfRaised(r, summary[r].v)
                 /\ Replies(r) \in {<<ACK_SEARCH, ACK_SUMMARY>>,
                                    <<ACK_SEARCH, ACK_SUMMARY, APOLOGY>>}
            ELSE /\ Replies(r) = <<ACK_SEARCH, ACK_SUMMARY, summary[r].v>>
                 /\ ~InReplies(r, APOLOGY)

C17_Witness ==
    /\ \E r \in Requests :
        /\ Finished(r)
        /\ SearchSucceeded(r)
        /\ Replies(r) = <<ACK_SEARCH, ACK_SUMMARY, SUMMARY_UNAVAILABLE>>
    /\ \E r \in Requests :
        /\ Finished(r)
        /\ SearchSucceeded(r)
        /\ Replies(r) = <<ACK_SEARCH, ACK_SUMMARY, NO_SUMMARY>>

====
